---- MODULE Spec2Model ----
(***************************************************************************)
(* Verification model of the PostgreSQL INTERVAL / POINT codecs, the       *)
(* duration bridge (std / chrono / time durations <-> PgInterval) and the  *)
(* query-description dispatch (QueryData::from_db) of sqlx.                *)
(*                                                                         *)
(* Machine integers are wider than TLC's 32-bit integers, so every       *)
(* integer of the program is kept as an exact mathematical integer:        *)
(*   - a natural number is a little-endian sequence of base-256 limbs with *)
(*     no leading (most significant) zero limb; zero is << >>;             *)
(*   - a signed integer is a record [neg, mag]; zero has neg = FALSE.      *)
(* Widths (i32, i64, u32, u64) are enforced by explicit range tests, as    *)
(* the program's checked conversions do.                                   *)
(***************************************************************************)
EXTENDS Integers, Sequences, FiniteSets, TLC

VARIABLES
  buf,       \* PgArgumentBuffer: the bytes of the arguments bound so far
  column,     \* the column value received from the server (PgValueRef), or NoValue
  call,      \* the last codec / pipeline call and what it returned
  hostd,     \* duration bridge: the host duration last converted
  iv,        \* duration bridge: the Result<PgInterval> in hand
  back,      \* duration bridge: the Result<host duration> of the last from-Interval
  features   \* the backend features this build of sqlx-macros was compiled with

vars == <<buf, column, call, hostd, iv, back, features>>

\* One byte holds 2^8 values: the unit of to_be_bytes / read_i64 / read_i32.
Base == 256

----------------------------------------------------------------------------
(* Exact natural-number arithmetic on limb sequences *)

RECURSIVE Norm(_)
Norm(s) ==
  IF s = << >> THEN << >>
  ELSE IF s[Len(s)] = 0 THEN Norm(SubSeq(s, 1, Len(s) - 1))
  ELSE s

RECURSIVE NatOf(_)
NatOf(n) == IF n = 0 THEN << >> ELSE <<n % Base>> \o NatOf(n \div Base)

Limb(a, i) == IF i <= Len(a) THEN a[i] ELSE 0

MaxOf(x, y) == IF x >= y THEN x ELSE y

RECURSIVE AddFrom(_, _, _, _)
AddFrom(a, b, i, carry) ==
  IF i > MaxOf(Len(a), Len(b))
    THEN (IF carry = 0 THEN << >> ELSE <<carry>>)
    ELSE LET t == Limb(a, i) + Limb(b, i) + carry
         IN  <<t % Base>> \o AddFrom(a, b, i + 1, t \div Base)

BigAdd(a, b) == Norm(AddFrom(a, b, 1, 0))

RECURSIVE SubFrom(_, _, _, _)
SubFrom(a, b, i, borrow) ==
  IF i > Len(a) THEN << >>
  ELSE LET t == Limb(a, i) - Limb(b, i) - borrow
       IN  IF t < 0 THEN <<t + Base>> \o SubFrom(a, b, i + 1, 1)
                    ELSE <<t>> \o SubFrom(a, b, i + 1, 0)

\* a - b for a >= b
BigSub(a, b) == Norm(SubFrom(a, b, 1, 0))

RECURSIVE LessFrom(_, _, _)
LessFrom(a, b, i) ==
  IF i = 0 THEN FALSE
  ELSE IF a[i] # b[i] THEN a[i] < b[i]
  ELSE LessFrom(a, b, i - 1)

BigLess(a, b) ==
  IF Len(a) # Len(b) THEN Len(a) < Len(b) ELSE LessFrom(a, b, Len(a))

BigLeq(a, b) == a = b \/ BigLess(a, b)

RECURSIVE MulFrom(_, _, _, _)
MulFrom(a, k, i, carry) ==
  IF i > Len(a) THEN NatOf(carry)
  ELSE LET t == a[i] * k + carry
       IN  <<t % Base>> \o MulFrom(a, k, i + 1, t \div Base)

\* a * k for a small multiplier k (k < 2^23)
MulSmall(a, k) == Norm(MulFrom(a, k, 1, 0))

RECURSIVE DivFrom(_, _, _, _)
DivFrom(a, d, i, rem) ==
  IF i = 0 THEN [quot |-> << >>, rem |-> rem]
  ELSE LET t    == rem * Base + a[i]
           rest == DivFrom(a, d, i - 1, t % d)
       IN  [quot |-> rest.quot \o <<t \div d>>, rem |-> rest.rem]

\* a div d and a mod d for a small divisor d (d < 2^23)
DivSmall(a, d) == Norm(DivFrom(a, d, Len(a), 0).quot)
ModSmall(a, d) == DivFrom(a, d, Len(a), 0).rem

\* 2^n
RECURSIVE Pow2(_)
Pow2(n) == IF n < 8 THEN <<2 ^ n>> ELSE <<0>> \o Pow2(n - 8)

----------------------------------------------------------------------------
(* Signed integers and the machine widths *)

SInt(neg, mag) == [neg |-> neg /\ mag # << >>, mag |-> mag]

\* a small literal as an exact integer
I(n) == IF n < 0 THEN SInt(TRUE, NatOf(0 - n)) ELSE SInt(FALSE, NatOf(n))

SAdd(x, y) ==
  IF x.neg = y.neg THEN SInt(x.neg, BigAdd(x.mag, y.mag))
  ELSE IF BigLeq(y.mag, x.mag) THEN SInt(x.neg, BigSub(x.mag, y.mag))
  ELSE SInt(y.neg, BigSub(y.mag, x.mag))

\* x * k, k a small positive literal
SMul(x, k) == SInt(x.neg, MulSmall(x.mag, k))

\* Rust's `/` and `%` on signed integers: the quotient truncates toward zero
\* and the remainder takes the sign of the dividend.
SDiv(x, d) == SInt(x.neg, DivSmall(x.mag, d))
SRem(x, d) == SInt(x.neg, NatOf(ModSmall(x.mag, d)))

SLeq(x, y) ==
  IF x.neg /\ ~y.neg THEN TRUE
  ELSE IF ~x.neg /\ y.neg THEN FALSE
  ELSE IF x.neg THEN BigLeq(y.mag, x.mag)
  ELSE BigLeq(x.mag, y.mag)

\* -2^(bits-1) <= x <= 2^(bits-1) - 1
FitsSigned(x, bits) ==
  IF x.neg THEN BigLeq(x.mag, Pow2(bits - 1)) ELSE BigLess(x.mag, Pow2(bits - 1))

\* 0 <= x <= 2^bits - 1
FitsUnsigned(x, bits) == ~x.neg /\ BigLess(x.mag, Pow2(bits))

I32_MAX == SInt(FALSE, BigSub(Pow2(31), NatOf(1)))
I32_MIN == SInt(TRUE, Pow2(31))
I64_MAX == SInt(FALSE, BigSub(Pow2(63), NatOf(1)))
I64_MIN == SInt(TRUE, Pow2(63))
U64_MAX == SInt(FALSE, BigSub(Pow2(64), NatOf(1)))

Reverse(s) == [i \in 1..Len(s) |-> s[Len(s) + 1 - i]]

Pad(s, w) == s \o [i \in 1..(w - Len(s)) |-> 0]

\* iN::to_be_bytes: the w-byte two's complement of x, most significant first
to_be_bytes(x, w) ==
  Reverse(Pad(IF x.neg THEN BigSub(Pow2(8 * w), x.mag) ELSE x.mag, w))

\* iN::from_be_bytes: the signed value of a big-endian two's complement
from_be_bytes(bytes) ==
  LET u == Norm(Reverse(bytes))
  IN  IF bytes # << >> /\ bytes[1] >= Base \div 2
        THEN SInt(TRUE, BigSub(Pow2(8 * Len(bytes)), u))
        ELSE SInt(FALSE, u)

----------------------------------------------------------------------------
(* Results *)

Ok(v) == [kind |-> "Ok", val |-> v]
Err(e) == [kind |-> "Err", err |-> e]
Panic(m) == [kind |-> "Panic", msg |-> m]

None == [kind |-> "None"]

IsOk(r) == r.kind = "Ok"
IsErr(r) == r.kind = "Err"

----------------------------------------------------------------------------
(* PgInterval and its binary codec (interval.rs) *)

PgInterval(m, d, us) == [months |-> m, days |-> d, microseconds |-> us]

\* mem::size_of::<i64>()
size_of_i64 == 8

size_hint == 2 * size_of_i64

\* faulty variant: months written before days
encode_swapped_fields(self, b) ==
  [buf |-> b \o to_be_bytes(self.microseconds, 8)
             \o to_be_bytes(self.months, 4)
             \o to_be_bytes(self.days, 4),
   is_null |-> "No"]

\* <PgInterval as Encode>::encode_by_ref
encode_by_ref(self, b) ==
  [buf |-> b \o to_be_bytes(self.microseconds, 8)
             \o to_be_bytes(self.days, 4)
             \o to_be_bytes(self.months, 4),
   is_null |-> "No"]

ErrUnexpectedEof == "failed to fill whole buffer"
ErrUnexpectedNull == "unexpected null; try decoding as an Option"
ErrIntervalText ==
  "not implemented: decode INTERVAL in text mode (unprepared queries)"

Cursor(bytes) == [bytes |-> bytes, pos |-> 0]
Remaining(cur) == Len(cur.bytes) - cur.pos

\* faulty variant: no length test, bytes past the end read as 0
read_exact_unchecked(cur, n) ==
  [res |-> Ok([i \in 1..n |-> IF cur.pos + i <= Len(cur.bytes)
                                THEN cur.bytes[cur.pos + i] ELSE 0]),
   cur |-> [cur EXCEPT !.pos = @ + n]]

\* <&[u8] as Read>::read_exact: all n bytes or UnexpectedEof, never past the end
read_exact(cur, n) ==
  IF Remaining(cur) < n
    THEN [res |-> Err(ErrUnexpectedEof), cur |-> cur]
    ELSE [res |-> Ok(SubSeq(cur.bytes, cur.pos + 1, cur.pos + n)),
          cur |-> [cur EXCEPT !.pos = @ + n]]

\* ReadBytesExt::read_i64::<NetworkEndian> / read_i32::<NetworkEndian>
read_int(cur, n) ==
  LET r == read_exact(cur, n)
  IN  [res |-> IF IsOk(r.res) THEN Ok(from_be_bytes(r.res.val)) ELSE r.res,
       cur |-> r.cur]

read_i64(cur) == read_int(cur, 8)
read_i32(cur) == read_int(cur, 4)

\* PgValueRef::as_bytes
as_bytes(v) == IF v.is_null THEN Err(ErrUnexpectedNull) ELSE Ok(v.bytes)

\* faulty variant: months read before days
decode_days_first(v) ==
  IF v.format = "Binary" THEN
    LET b == as_bytes(v) IN
    IF ~IsOk(b) THEN [res |-> b, read |-> 0] ELSE
    LET r1 == read_i64(Cursor(b.val)) IN
    IF ~IsOk(r1.res) THEN [res |-> r1.res, read |-> r1.cur.pos] ELSE
    LET r2 == read_i32(r1.cur) IN
    IF ~IsOk(r2.res) THEN [res |-> r2.res, read |-> r2.cur.pos] ELSE
    LET r3 == read_i32(r2.cur) IN
    IF ~IsOk(r3.res) THEN [res |-> r3.res, read |-> r3.cur.pos] ELSE
    [res |-> Ok(PgInterval(r2.res.val, r3.res.val, r1.res.val)),
     read |-> r3.cur.pos]
  ELSE [res |-> Err(ErrIntervalText), read |-> 0]

\* <PgInterval as Decode>::decode; `read` is the number of payload bytes consumed
decode(v) ==
  IF v.format = "Binary" THEN
    LET b == as_bytes(v) IN
    IF ~IsOk(b) THEN [res |-> b, read |-> 0] ELSE
    LET r1 == read_i64(Cursor(b.val)) IN
    IF ~IsOk(r1.res) THEN [res |-> r1.res, read |-> r1.cur.pos] ELSE
    LET r2 == read_i32(r1.cur) IN
    IF ~IsOk(r2.res) THEN [res |-> r2.res, read |-> r2.cur.pos] ELSE
    LET r3 == read_i32(r2.cur) IN
    IF ~IsOk(r3.res) THEN [res |-> r3.res, read |-> r3.cur.pos] ELSE
    [res |-> Ok(PgInterval(r3.res.val, r2.res.val, r1.res.val)),
     read |-> r3.cur.pos]
  ELSE [res |-> Err(ErrIntervalText), read |-> 0]

----------------------------------------------------------------------------
(* Coordinate<f64> (POINT) decode (geo.rs) *)

ErrPointText == "not implemented"

\* Buf::get_str(1): one marker byte
get_str(cur) ==
  LET r == read_exact(cur, 1)
  IN  [res |-> IF IsOk(r.res) THEN Ok(r.res.val[1]) ELSE r.res, cur |-> r.cur]

\* Buf::get_f64::<BigEndian>: the eight bytes of the IEEE-754 bit pattern,
\* most significant first; the float is kept as that bit pattern
get_f64(cur) == read_exact(cur, 8)

\* PgValue::try_get
try_get(v) ==
  IF v.is_null THEN Err(ErrUnexpectedNull)
  ELSE Ok([data |-> v.format, bytes |-> v.bytes])

\* <Coordinate<f64> as Decode>::decode
decode_point(v) ==
  LET d == try_get(v) IN
  IF ~IsOk(d) THEN d
  ELSE IF d.val.data = "Binary" THEN
    LET open_paren == get_str(Cursor(d.val.bytes)) IN
    IF ~IsOk(open_paren.res) THEN open_paren.res ELSE
    LET x == get_f64(open_paren.cur) IN
    IF ~IsOk(x.res) THEN x.res ELSE
    LET comma == get_str(x.cur) IN
    IF ~IsOk(comma.res) THEN comma.res ELSE
    LET y == get_f64(comma.cur) IN
    IF ~IsOk(y.res) THEN y.res ELSE
    LET close_paren == get_str(y.cur) IN
    IF ~IsOk(close_paren.res) THEN close_paren.res ELSE
    Ok([x |-> x.res.val, y |-> y.res.val])
  ELSE Panic(ErrPointText)

----------------------------------------------------------------------------
(* Host durations and their native conversions *)

\* x div 10^9 and x mod 10^9 on naturals (10^9 = 1000 * 1000000)
DivBillion(x) == DivSmall(DivSmall(x, 1000), 1000000)
ModBillion(x) == BigSub(x, MulSmall(MulSmall(DivBillion(x), 1000), 1000000))

\* x * 10^9
Billions(x) == SMul(SMul(x, 1000), 1000000)

\* std::time::Duration::new(secs: u64, nanos: u32): whole seconds are carried
\* out of nanos.  (The carry overflowing u64 would panic; every caller below
\* passes nanos < 10^9, so the carry is 0.)
Duration_new(secs, nanos) ==
  [secs |-> SAdd(secs, SInt(FALSE, DivBillion(nanos.mag))),
   nanos |-> SInt(FALSE, ModBillion(nanos.mag))]

\* std::time::Duration::as_nanos / as_micros (u128)
as_nanos(d) == SAdd(Billions(d.secs), d.nanos)
as_micros(d) == SAdd(SMul(d.secs, 1000000), SDiv(d.nanos, 1000))

ErrNanos == "PostgreSQL INTERVAL does not support nanoseconds precision"
ErrTryFromInt == "out of range integral type conversion attempted"
ErrChronoRange == "Source duration value is out of range for the target type"
ErrTimeRange == "Source value is out of range for the target type"
ErrMonths == "months would overflow in seconds"
ErrDays == "days would overflow in seconds"
ErrMonthsDays == "months + days would overflow in seconds"
ErrMonthsDaysMicros == "months + days + microseconds would overflow in seconds"

\* iN -> uM / u128 -> i64 (TryFrom between integer types)
try_unsigned(x, bits) == IF FitsUnsigned(x, bits) THEN Ok(x) ELSE Err(ErrTryFromInt)
try_signed(x, bits) == IF FitsSigned(x, bits) THEN Ok(x) ELSE Err(ErrTryFromInt)

\* u64::checked_mul / u64::checked_add followed by ok_or(msg)
checked_mul(x, k, msg) ==
  LET p == SMul(x, k) IN IF FitsUnsigned(p, 64) THEN Ok(p) ELSE Err(msg)
checked_add(x, y, msg) ==
  LET t == SAdd(x, y) IN IF FitsUnsigned(t, 64) THEN Ok(t) ELSE Err(msg)

\* TryFrom<std::time::Duration> for PgInterval
from_std(value) ==
  IF SRem(as_nanos(value), 1000) # I(0) THEN Err(ErrNanos)
  ELSE LET us == try_signed(as_micros(value), 64)
       IN  IF IsOk(us) THEN Ok(PgInterval(I(0), I(0), us.val)) ELSE us

\* faulty variant: the microsecond remainder is not scaled to nanoseconds
to_std_nanos_unscaled(self) ==
  LET secs == SAdd(SAdd(SMul(self.months, 30 * 24 * 60 * 60),
                        SMul(self.days, 24 * 60 * 60)),
                   SDiv(self.microseconds, 1000000))
      nanos == SRem(self.microseconds, 1000000)
  IN  IF self.months.neg \/ self.days.neg \/ self.microseconds.neg
        THEN Err(ErrTryFromInt)
        ELSE Ok(Duration_new(secs, nanos))

\* faulty variant: as u64 casts instead of try_from, signs are lost
to_std_lossy_cast(self) ==
  LET secs == SAdd(SAdd(SMul(SInt(FALSE, self.months.mag), 30 * 24 * 60 * 60),
                        SMul(SInt(FALSE, self.days.mag), 24 * 60 * 60)),
                   SInt(FALSE, SDiv(self.microseconds, 1000000).mag))
      nanos == SMul(SInt(FALSE, SRem(self.microseconds, 1000000).mag), 1000)
  IN  Ok(Duration_new(secs, nanos))

\* TryInto<std::time::Duration> for PgInterval
to_std(self) ==
  LET m == try_unsigned(self.months, 64) IN
  IF ~IsOk(m) THEN m ELSE
  LET ms == checked_mul(m.val, 30 * 24 * 60 * 60, ErrMonths) IN
  IF ~IsOk(ms) THEN ms ELSE
  LET d == try_unsigned(self.days, 64) IN
  IF ~IsOk(d) THEN d ELSE
  LET ds == checked_mul(d.val, 24 * 60 * 60, ErrDays) IN
  IF ~IsOk(ds) THEN ds ELSE
  LET md == checked_add(ms.val, ds.val, ErrMonthsDays) IN
  IF ~IsOk(md) THEN md ELSE
  LET q == try_unsigned(SDiv(self.microseconds, 1000000), 64) IN
  IF ~IsOk(q) THEN q ELSE
  LET secs == checked_add(md.val, q.val, ErrMonthsDaysMicros) IN
  IF ~IsOk(secs) THEN secs ELSE
  LET nanos == try_unsigned(SMul(SRem(self.microseconds, 1000000), 1000), 32) IN
  IF ~IsOk(nanos) THEN nanos ELSE
  Ok(Duration_new(secs.val, nanos.val))

\* chrono::Duration is {secs: i64, nanos: i32} with 0 <= nanos < 10^9;
\* its value is secs + nanos / 10^9.  chrono::MAX is i64::MAX milliseconds.
ChronoMax ==
  [secs |-> SDiv(I64_MAX, 1000), nanos |-> SMul(SRem(I64_MAX, 1000), 1000000)]

ChronoLeq(a, b) ==
  IF a.secs = b.secs THEN SLeq(a.nanos, b.nanos) ELSE SLeq(a.secs, b.secs)

\* chrono::Duration::to_std
chrono_to_std(d) ==
  IF d.secs.neg THEN Err(ErrChronoRange) ELSE Ok(Duration_new(d.secs, d.nanos))

\* chrono::Duration::from_std
chrono_from_std(d) ==
  IF ~SLeq(d.secs, ChronoMax.secs) THEN Err(ErrChronoRange)
  ELSE IF ~ChronoLeq(d, ChronoMax) THEN Err(ErrChronoRange)
  ELSE Ok([secs |-> d.secs, nanos |-> d.nanos])

\* chrono::Duration::num_nanoseconds-style direct conversion (no delegation)
from_chrono_direct(value) ==
  IF SRem(SAdd(Billions(value.secs), value.nanos), 1000) # I(0) THEN Err(ErrNanos)
  ELSE LET us == try_signed(SAdd(SMul(value.secs, 1000000),
                                 SDiv(value.nanos, 1000)), 64)
       IN  IF IsOk(us) THEN Ok(PgInterval(I(0), I(0), us.val)) ELSE us

\* TryFrom<chrono::Duration> for PgInterval
from_chrono(value) ==
  LET s == chrono_to_std(value) IN IF IsOk(s) THEN from_std(s.val) ELSE s

\* TryInto<chrono::Duration> for PgInterval
to_chrono(self) ==
  LET s == to_std(self) IN IF IsOk(s) THEN chrono_from_std(s.val) ELSE s

\* time::Duration is {seconds: i64, nanoseconds: i32}, both of one sign,
\* |nanoseconds| < 10^9
whole_nanoseconds(d) == SAdd(Billions(d.seconds), d.nanoseconds)
whole_microseconds(d) ==
  SAdd(SMul(d.seconds, 1000000), SDiv(d.nanoseconds, 1000))

\* TryFrom<std::time::Duration> for time::Duration
time_try_from_std(d) ==
  IF ~FitsSigned(d.secs, 64) \/ ~FitsSigned(d.nanos, 32)
    THEN Err(ErrTimeRange)
    ELSE Ok([seconds |-> d.secs, nanoseconds |-> d.nanos])

\* TryFrom<time::Duration> for PgInterval
from_time(value) ==
  IF SRem(whole_nanoseconds(value), 1000) # I(0) THEN Err(ErrNanos)
  ELSE LET us == try_signed(whole_microseconds(value), 64)
       IN  IF IsOk(us) THEN Ok(PgInterval(I(0), I(0), us.val)) ELSE us

\* TryInto<time::Duration> for PgInterval
to_time(self) ==
  LET s == to_std(self) IN IF IsOk(s) THEN time_try_from_std(s.val) ELSE s

----------------------------------------------------------------------------
(* Inputs of the codec *)

\* bytes another argument's encoder may have left in the buffer
MaxPrior == 1
\* bytes a payload may carry beyond the 16 of an interval
MaxExtra == 1

\* the values of those bytes
OtherBytes == {0, 171}

Thousand == NatOf(1000)
Million == NatOf(1000000)
Hour == MulSmall(NatOf(3600000), 1000)

I32Inputs == {I(0), I(1), I(-1), I32_MAX, I32_MIN}

I64Inputs ==
  {I(0), I(1), I(-1), SInt(FALSE, Thousand), SInt(FALSE, Million),
   SInt(FALSE, Hour), I(27000), I64_MAX, I64_MIN}

IntervalInputs ==
  {PgInterval(m, d, us) : m \in I32Inputs, d \in I32Inputs, us \in I64Inputs}

Formats == {"Binary", "Text"}

NoValue == [format |-> "None", is_null |-> TRUE, bytes |-> << >>]

Take(s, n) == SubSeq(s, 1, IF n < Len(s) THEN n ELSE Len(s))

\* (5.0, 45.5) in the layout geo.rs reads: '(' x ',' y ')'
PointWire ==
  <<40, 64, 20, 0, 0, 0, 0, 0, 0, 44, 64, 70, 192, 0, 0, 0, 0, 0, 41>>

Panicked == call.op # "init" /\ call.res.kind = "Panic"

----------------------------------------------------------------------------
(* The codec as a state machine: arguments are bound into the buffer, the   *)
(* query is executed, and the returned column value is decoded.             *)

CodecIdle ==
  /\ hostd = None /\ iv = None /\ back = None /\ features = {}

InitCodec ==
  /\ buf = << >>
  /\ column = NoValue
  /\ call = [op |-> "init"]
  /\ CodecIdle

\* another argument is encoded into the shared buffer
OtherArg ==
  /\ ~Panicked
  /\ column = NoValue
  /\ Len(buf) < MaxPrior
  /\ \E b \in OtherBytes : buf' = Append(buf, b)
  /\ column' = NoValue
  /\ call' = [op |-> "other", res |-> Ok("No")]
  /\ UNCHANGED <<hostd, iv, back, features>>

\* Encode::<Postgres>::encode(&interval, &mut buf)
Encode ==
  /\ ~Panicked
  /\ column = NoValue
  /\ Len(buf) <= MaxPrior
  /\ \E v \in IntervalInputs :
       LET e == encode_by_ref(v, buf) IN
       /\ buf' = e.buf
       /\ call' = [op |-> "encode", arg |-> v, pre |-> buf,
                   res |-> Ok(e.is_null), hint |-> size_hint]
  /\ column' = NoValue
  /\ UNCHANGED <<hostd, iv, back, features>>

\* the statement runs with the bound interval as its last argument; the
\* server answers with a column whose payload is the first n bytes of that
\* argument's 16 bytes followed by extra bytes, in either format, or NULL
Execute ==
  /\ ~Panicked
  /\ call.op = "encode"
  /\ \E fmt \in Formats, n \in 0..(2 * size_of_i64 + MaxExtra), null \in BOOLEAN,
        b \in OtherBytes :
       LET sent == SubSeq(buf, Len(call.pre) + 1, Len(buf))
           full == sent \o [i \in 1..MaxExtra |-> b]
       IN  /\ null => n = 0
           /\ column' = [format |-> fmt, is_null |-> null, bytes |-> Take(full, n)]
  /\ buf' = << >>
  /\ call' = [op |-> "execute", arg |-> call.arg, res |-> Ok("sent")]
  /\ UNCHANGED <<hostd, iv, back, features>>

\* a statement without arguments returns a POINT column
ExecutePoint ==
  /\ ~Panicked
  /\ buf = << >> /\ column = NoValue
  /\ \E fmt \in Formats, n \in 0..Len(PointWire), null \in BOOLEAN :
       /\ null => n = 0
       /\ column' = [format |-> fmt, is_null |-> null, bytes |-> Take(PointWire, n)]
  /\ call' = [op |-> "execute_point", res |-> Ok("sent")]
  /\ UNCHANGED <<buf, hostd, iv, back, features>>

\* <PgInterval as Decode>::decode(column)
Decode ==
  /\ ~Panicked
  /\ call.op = "execute"
  /\ LET r == decode(column) IN
       call' = [op |-> "decode", arg |-> call.arg, res |-> r.res, read |-> r.read]
  /\ UNCHANGED <<buf, column, hostd, iv, back, features>>

\* <Coordinate<f64> as Decode>::decode(column)
DecodePoint ==
  /\ ~Panicked
  /\ call.op = "execute_point"
  /\ call' = [op |-> "decode_point", res |-> decode_point(column)]
  /\ UNCHANGED <<buf, column, hostd, iv, back, features>>

\* the row is dropped; the connection is ready for the next statement
Finish ==
  /\ ~Panicked
  /\ call.op \in {"decode", "decode_point"}
  /\ column' = NoValue
  /\ call' = [op |-> "init"]
  /\ UNCHANGED <<buf, hostd, iv, back, features>>

NextCodec ==
  \/ OtherArg
  \/ Encode
  \/ Execute
  \/ ExecutePoint
  \/ Decode
  \/ DecodePoint
  \/ Finish

SpecCodec == InitCodec /\ [][NextCodec]_vars

----------------------------------------------------------------------------
(* Inputs of the duration bridge *)

\* i64::MAX microseconds is 9223372036854 s + 775807 us
MaxMicroSecs == SDiv(I64_MAX, 1000000)

NanosInputs ==
  {I(0), I(1), I(1000), I(27000000), I(775807000), I(775808000),
   I(999995000), I(999999999)}

StdInputs ==
  {[secs |-> s, nanos |-> n] :
     s \in {I(0), I(1), MaxMicroSecs, SAdd(MaxMicroSecs, I(1)), U64_MAX},
     n \in NanosInputs}

ChronoInputs ==
  {d \in [secs : {I(0), I(1), I(-1), I(-2), MaxMicroSecs,
                  SAdd(MaxMicroSecs, I(1)), ChronoMax.secs},
          nanos : NanosInputs \cup {ChronoMax.nanos}] :
     ChronoLeq(d, ChronoMax)}

Neg(x) == SInt(~x.neg, x.mag)

TimeInputs ==
  {d \in [seconds : {I(0), I(1), I(-1), MaxMicroSecs, Neg(MaxMicroSecs),
                     SAdd(MaxMicroSecs, I(1)), I64_MAX, I64_MIN},
          nanoseconds : NanosInputs \cup {Neg(n) : n \in NanosInputs}] :
     /\ (d.seconds.neg => SLeq(d.nanoseconds, I(0)))
     /\ (~d.seconds.neg /\ d.seconds # I(0) => ~d.nanoseconds.neg)}

BridgeIntervals ==
  {PgInterval(m, d, us) :
     m \in {I(0), I(1), I(-1), I32_MAX},
     d \in {I(0), I(1), I(-1), I32_MAX},
     us \in {I(0), I(1), I(-1), I(27000), I(1500001), I(-1000000),
             I64_MAX, I64_MIN}}

----------------------------------------------------------------------------
(* The duration bridge as a state machine: a host duration is converted to  *)
(* a PgInterval, or a PgInterval arrives, and the interval in hand is       *)
(* converted to a host duration.                                            *)

BridgeIdle ==
  /\ buf = << >> /\ column = NoValue /\ call = [op |-> "init"] /\ features = {}

InitBridge ==
  /\ hostd = None /\ iv = None /\ back = None
  /\ BridgeIdle

\* PgInterval::try_from(d) for a std::time::Duration
FromStd ==
  /\ iv = None
  /\ \E d \in StdInputs :
       /\ hostd' = [kind |-> "std", d |-> d]
       /\ iv' = from_std(d)
  /\ back' = None
  /\ UNCHANGED <<buf, column, call, features>>

\* PgInterval::try_from(d) for a chrono::Duration
FromChrono ==
  /\ iv = None
  /\ \E d \in ChronoInputs :
       /\ hostd' = [kind |-> "chrono", d |-> d]
       /\ iv' = from_chrono(d)
  /\ back' = None
  /\ UNCHANGED <<buf, column, call, features>>

\* PgInterval::try_from(d) for a time::Duration
FromTime ==
  /\ iv = None
  /\ \E d \in TimeInputs :
       /\ hostd' = [kind |-> "time", d |-> d]
       /\ iv' = from_time(d)
  /\ back' = None
  /\ UNCHANGED <<buf, column, call, features>>

\* a PgInterval that came from a row or was built field by field
Fetch ==
  /\ iv = None
  /\ \E v \in BridgeIntervals : iv' = Ok(v)
  /\ hostd' = None
  /\ back' = None
  /\ UNCHANGED <<buf, column, call, features>>

\* interval.to_std() / TryInto<std::time::Duration>
ToStd ==
  /\ IsOk(iv) /\ back = None
  /\ back' = [kind |-> "std", res |-> to_std(iv.val)]
  /\ UNCHANGED <<buf, column, call, hostd, iv, features>>

\* TryInto<chrono::Duration>
ToChrono ==
  /\ IsOk(iv) /\ back = None
  /\ back' = [kind |-> "chrono", res |-> to_chrono(iv.val)]
  /\ UNCHANGED <<buf, column, call, hostd, iv, features>>

\* TryInto<time::Duration>
ToTime ==
  /\ IsOk(iv) /\ back = None
  /\ back' = [kind |-> "time", res |-> to_time(iv.val)]
  /\ UNCHANGED <<buf, column, call, hostd, iv, features>>

\* the values in hand are dropped
Drop ==
  /\ iv # None
  /\ hostd' = None /\ iv' = None /\ back' = None
  /\ UNCHANGED <<buf, column, call, features>>

NextBridge ==
  \/ FromStd
  \/ FromChrono
  \/ FromTime
  \/ Fetch
  \/ ToStd
  \/ ToChrono
  \/ ToTime
  \/ Drop

SpecBridge == InitBridge /\ [][NextBridge]_vars

----------------------------------------------------------------------------
(* QueryData::from_db (data.rs): dispatch on the scheme of the database URL *)

AllFeatures == {"sqlite", "postgres", "mysql"}

\* the scheme as the URL parser stores it: ASCII lower case
LowerCase(raw) ==
  CASE raw = "POSTGRES" -> "postgres"
    [] raw = "Ftp" -> "ftp"
    [] OTHER -> raw

ErrUrlParse == [msg |-> "relative URL without a base"]

\* db_url.parse::<Url>(): a string without a scheme is no absolute URL
parse_url(text) ==
  IF text.scheme = "" THEN Err(ErrUrlParse)
  ELSE Ok([scheme |-> LowerCase(text.scheme), rest |-> text.rest])

\* faulty variant: the mariadb scheme is missing from the table
backend_of_without_mariadb(scheme) ==
  CASE scheme = "sqlite" -> "sqlite"
    [] scheme \in {"postgresql", "postgres"} -> "postgres"
    [] scheme = "mysql" -> "mysql"
    [] OTHER -> "none"

\* the arms of `match db_url.scheme()`
backend_of(scheme) ==
  CASE scheme = "sqlite" -> "sqlite"
    [] scheme \in {"postgresql", "postgres"} -> "postgres"
    [] scheme \in {"mysql", "mariadb"} -> "mysql"
    [] OTHER -> "none"

DatabaseName(feature) ==
  CASE feature = "sqlite" -> "SQLite"
    [] feature = "postgres" -> "Postgres"
    [] OTHER -> "MySQL/MariaDB"

ErrUnexpectedScheme(scheme, url) ==
  [msg |-> "unexpected scheme in database URL", scheme |-> scheme, url |-> url]

ErrNotEnabled(feature, url) ==
  [msg |-> "database URL has the scheme of a database whose feature of sqlx was not enabled",
   database |-> DatabaseName(feature), feature |-> feature, url |-> url]

ErrConnect(url) == [msg |-> "failed to connect to database", url |-> url]

ErrDescribe == [msg |-> "describe failed"]

\* describe_query(conn, query): the describe round trip on the connection
describe_query(query, net) ==
  IF net.describe THEN Ok([query |-> query]) ELSE Err(ErrDescribe)

\* QueryData::from_db(db_url, query) in a build with the features `enabled`;
\* net says whether the server accepts the connection and the describe.
\* `connected` tells whether a connection was attempted.
from_db(db_url, query, enabled, net) ==
  LET parsed == parse_url(db_url) IN
  IF ~IsOk(parsed) THEN [res |-> parsed, connected |-> FALSE] ELSE
  LET url == parsed.val
      backend == backend_of(url.scheme)
  IN  IF backend = "none"
        THEN [res |-> Err(ErrUnexpectedScheme(url.scheme, url)), connected |-> FALSE]
      ELSE IF backend \notin enabled
        THEN [res |-> Err(ErrNotEnabled(backend, url)), connected |-> FALSE]
      ELSE IF ~net.connect
        THEN [res |-> Err(ErrConnect(url)), connected |-> TRUE]
      ELSE [res |-> describe_query(query, net), connected |-> TRUE]

UrlInputs ==
  [scheme : {"sqlite", "postgresql", "postgres", "mysql", "mariadb", "ftp",
             "http", "", "POSTGRES", "Ftp"},
   rest : {"//localhost/db", ":memory:"}]

QueryInputs == {"SELECT 1", "SELECT $1::interval"}

InitPipeline ==
  /\ features \in SUBSET AllFeatures
  /\ call = [op |-> "init"]
  /\ buf = << >> /\ column = NoValue
  /\ hostd = None /\ iv = None /\ back = None

\* one expansion of a query macro: QueryData::from_db(db_url, query)
FromDb ==
  /\ \E db_url \in UrlInputs, query \in QueryInputs,
        net \in [connect : BOOLEAN, describe : BOOLEAN] :
       LET r == from_db(db_url, query, features, net) IN
       call' = [op |-> "from_db", db_url |-> db_url, query |-> query,
                res |-> r.res, connected |-> r.connected]
  /\ UNCHANGED <<buf, column, hostd, iv, back, features>>

NextPipeline == FromDb

SpecPipeline == InitPipeline /\ [][NextPipeline]_vars

----------------------------------------------------------------------------
(* Properties of the codec, checked under SpecCodec *)

\* the 16 bytes the last Encode call appended
Appended == SubSeq(buf, Len(call.pre) + 1, Len(buf))

\* C1: decoding, in binary format, exactly the bytes that encoding v
\* produced returns Ok(v): months, days and microseconds are all restored.
C1_RoundTrip ==
  (/\ call.op = "decode"
   /\ column.format = "Binary" /\ ~column.is_null
   /\ column.bytes = encode_by_ref(call.arg, << >>).buf)
  => call.res = Ok(call.arg)

C1_Witness ==
  /\ call.op = "decode"
  /\ column.format = "Binary" /\ ~column.is_null
  /\ column.bytes = encode_by_ref(call.arg, << >>).buf
  /\ call.arg = PgInterval(I32_MIN, I(-1), I64_MIN)
  /\ call.res = Ok(call.arg)

\* C2: Encode appends exactly 16 bytes after whatever the buffer held:
\* microseconds big-endian at offsets 0-7, days at 8-11, months at 12-15;
\* it returns IsNull::No and the size hint is 16.  The reference vectors of
\* test_encode_interval are reproduced byte for byte.
C2_EncodeLayout ==
  call.op = "encode" =>
    /\ Len(buf) = Len(call.pre) + 16
    /\ SubSeq(buf, 1, Len(call.pre)) = call.pre
    /\ from_be_bytes(SubSeq(Appended, 1, 8)) = call.arg.microseconds
    /\ from_be_bytes(SubSeq(Appended, 9, 12)) = call.arg.days
    /\ from_be_bytes(SubSeq(Appended, 13, 16)) = call.arg.months
    /\ call.res = Ok("No")
    /\ call.hint = 16
    /\ (call.arg = PgInterval(I(0), I(0), I(0)) =>
          Appended = <<0, 0, 0, 0, 0, 0, 0, 0, 0, 0, 0, 0, 0, 0, 0, 0>>)
    /\ (call.arg = PgInterval(I(0), I(0), I(1000)) =>
          Appended = <<0, 0, 0, 0, 0, 0, 3, 232, 0, 0, 0, 0, 0, 0, 0, 0>>)
    /\ (call.arg = PgInterval(I(0), I(0), I(1000000)) =>
          Appended = <<0, 0, 0, 0, 0, 15, 66, 64, 0, 0, 0, 0, 0, 0, 0, 0>>)
    /\ (call.arg = PgInterval(I(0), I(0), SInt(FALSE, Hour)) =>
          Appended = <<0, 0, 0, 0, 214, 147, 164, 0, 0, 0, 0, 0, 0, 0, 0, 0>>)
    /\ (call.arg = PgInterval(I(0), I(1), I(0)) =>
          Appended = <<0, 0, 0, 0, 0, 0, 0, 0, 0, 0, 0, 1, 0, 0, 0, 0>>)
    /\ (call.arg = PgInterval(I(1), I(0), I(0)) =>
          Appended = <<0, 0, 0, 0, 0, 0, 0, 0, 0, 0, 0, 0, 0, 0, 0, 1>>)

C2_Witness ==
  /\ call.op = "encode"
  /\ call.pre # << >>
  /\ call.arg = PgInterval(I(1), I(0), I(0))
  /\ Appended[16] = 1

\* C5 (as claimed): a text-format decode of an Interval or of a Point
\* returns an error value; it never panics.
C5_TextDecodeReturnsError ==
  (call.op \in {"decode", "decode_point"} /\ column.format = "Text" /\ ~column.is_null)
  => IsErr(call.res)

\* C9: a binary decode of a payload shorter than 16 bytes fails with the
\* short-buffer error (UnexpectedEof), returns no PgInterval and consumes no
\* byte beyond the end of the payload.
C9_ShortBuffer ==
  (/\ call.op = "decode"
   /\ column.format = "Binary" /\ ~column.is_null
   /\ Len(column.bytes) < 16)
  => /\ call.res = Err(ErrUnexpectedEof)
     /\ call.read <= Len(column.bytes)

C9_Witness ==
  /\ call.op = "decode"
  /\ column.format = "Binary" /\ ~column.is_null
  /\ Len(column.bytes) = 10
  /\ call.res = Err(ErrUnexpectedEof)
  /\ call.read = 8

----------------------------------------------------------------------------
(* Properties of the duration bridge, checked under SpecBridge *)

\* the nanosecond field of a host duration (of the sign of the duration for
\* time::Duration, never negative for the other two)
SubSecNanos(h) == IF h.kind = "time" THEN h.d.nanoseconds ELSE h.d.nanos
WholeSecs(h) == IF h.kind = "time" THEN h.d.seconds ELSE h.d.secs

\* the duration is not a whole number of microseconds
HasSubMicro(h) == ModSmall(SubSecNanos(h).mag, 1000) # 0

\* the duration in microseconds, for a whole number of microseconds
TotalMicros(h) ==
  SAdd(SMul(WholeSecs(h), 1000000), SDiv(SubSecNanos(h), 1000))

NonNegative(h) == ~WholeSecs(h).neg /\ ~SubSecNanos(h).neg

Converted == hostd.kind # "None"

\* C3 (as claimed): a host duration with a nonzero sub-microsecond remainder
\* fails the to-Interval conversion with the precision-loss error.
C3_PrecisionLoss ==
  (Converted /\ HasSubMicro(hostd)) => iv = Err(ErrNanos)

\* C4 (as claimed): every host duration that is a whole number of
\* microseconds converts to a PgInterval and back to the same duration.
C4_RoundTripAll ==
  (Converted /\ ~HasSubMicro(hostd)) =>
    /\ IsOk(iv)
    /\ (back.kind = hostd.kind => back.res = Ok(hostd.d))

\* C4 (amended): every host duration that is a whole number of microseconds,
\* is not negative and whose total microseconds fit a signed 64-bit integer
\* converts to a PgInterval and back to the same duration.
C4_RoundTrip ==
  (/\ Converted /\ ~HasSubMicro(hostd)
   /\ NonNegative(hostd)
   /\ FitsSigned(TotalMicros(hostd), 64)) =>
    /\ IsOk(iv)
    /\ (back.kind = hostd.kind => back.res = Ok(hostd.d))

C4_Witness ==
  /\ hostd.kind = "chrono"
  /\ hostd.d = [secs |-> MaxMicroSecs, nanos |-> I(775807000)]
  /\ iv = Ok(PgInterval(I(0), I(0), I64_MAX))
  /\ back.kind = "chrono"
  /\ back.res = Ok(hostd.d)

\* C6 (as claimed): a host duration that is a whole number of microseconds
\* converts to exactly {months: 0, days: 0, microseconds: total} when the
\* total fits i64, and to a range error when it does not.
C6_ToInterval ==
  (Converted /\ ~HasSubMicro(hostd)) =>
    IF FitsSigned(TotalMicros(hostd), 64)
      THEN iv = Ok(PgInterval(I(0), I(0), TotalMicros(hostd)))
      ELSE iv = Err(ErrTryFromInt)

\* C7: PgInterval -> std::time::Duration is an error whenever months, days
\* or microseconds is negative or the seconds leave the u64 range; otherwise
\* seconds = months * 2,592,000 + days * 86,400 + microseconds div 1,000,000
\* and nanoseconds = (microseconds mod 1,000,000) * 1,000.
ExpectedSecs(v) ==
  SAdd(SDiv(v.microseconds, 1000000),
       SAdd(SMul(v.days, 86400), SMul(v.months, 2592000)))

C7_ToStd ==
  back.kind = "std" =>
    LET v == iv.val IN
    IF v.months.neg \/ v.days.neg \/ v.microseconds.neg
         \/ ~FitsUnsigned(ExpectedSecs(v), 64)
      THEN IsErr(back.res)
      ELSE /\ IsOk(back.res)
           /\ back.res.val.secs = ExpectedSecs(v)
           /\ back.res.val.nanos = SMul(SRem(v.microseconds, 1000000), 1000)
           \* the same, as one total in microseconds
           /\ SAdd(SMul(back.res.val.secs, 1000000),
                   SDiv(back.res.val.nanos, 1000))
                = SAdd(v.microseconds,
                       SMul(SAdd(SMul(v.days, 86400), SMul(v.months, 2592000)),
                            1000000))

C7_Witness ==
  /\ back.kind = "std"
  /\ iv = Ok(PgInterval(I(1), I(1), I(1500001)))
  /\ back.res = Ok([secs |-> I(2678401), nanos |-> I(500001000)])

C7_WitnessNegative ==
  /\ back.kind = "std"
  /\ iv = Ok(PgInterval(I(1), I(-1), I(27000)))
  /\ IsErr(back.res)

\* the same PgInterval / duration, or an error in both
Same(r1, r2) == IF IsOk(r1) THEN r1 = r2 ELSE ~IsOk(r2)

\* time's native conversion to the standard duration,
\* TryFrom<time::Duration> for std::time::Duration: a negative field is out
\* of range
std_try_from_time(d) ==
  IF ~FitsUnsigned(d.seconds, 64) \/ ~FitsUnsigned(d.nanoseconds, 32)
    THEN Err(ErrTimeRange)
    ELSE Ok(Duration_new(d.seconds, d.nanoseconds))

\* native conversion to the standard duration, then the standard to-Interval
DelegatedFrom(h) ==
  LET s == IF h.kind = "chrono" THEN chrono_to_std(h.d) ELSE std_try_from_time(h.d)
  IN  IF IsOk(s) THEN from_std(s.val) ELSE s

\* PgInterval::to_std, then the native conversion from the standard duration
DelegatedTo(kind, v) ==
  LET s == to_std(v)
  IN  IF ~IsOk(s) THEN s
      ELSE IF kind = "chrono" THEN chrono_from_std(s.val)
      ELSE time_try_from_std(s.val)

Alternative == {"chrono", "time"}

\* C10 (as claimed): for chrono::Duration and time::Duration alike, the
\* to-Interval adapter gives the outcome of the native conversion to the
\* standard duration followed by the standard to-Interval conversion, and the
\* from-Interval adapter that of to_std followed by the native conversion.
C10_DelegationAll ==
  /\ hostd.kind \in Alternative => Same(iv, DelegatedFrom(hostd))
  /\ back.kind \in Alternative => Same(back.res, DelegatedTo(back.kind, iv.val))

\* C10 (amended): that holds for both adapters of chrono::Duration, for the
\* from-Interval adapter of time::Duration, and for the to-Interval adapter
\* of time::Duration on durations that are not negative.  For a negative
\* time::Duration the delegated conversion fails, while the adapter returns
\* {0, 0, total microseconds} whenever that is whole and fits i64.
C10_Delegation ==
  /\ (hostd.kind = "chrono" \/ (hostd.kind = "time" /\ NonNegative(hostd)))
       => Same(iv, DelegatedFrom(hostd))
  /\ (hostd.kind = "time" /\ ~NonNegative(hostd)) =>
       /\ ~IsOk(DelegatedFrom(hostd))
       /\ (~HasSubMicro(hostd) /\ FitsSigned(TotalMicros(hostd), 64))
            => iv = Ok(PgInterval(I(0), I(0), TotalMicros(hostd)))
  /\ back.kind \in Alternative => Same(back.res, DelegatedTo(back.kind, iv.val))

C10_Witness ==
  /\ hostd.kind = "time"
  /\ hostd.d = [seconds |-> I(1), nanoseconds |-> I(27000000)]
  /\ iv = Ok(PgInterval(I(0), I(0), I(1027000)))
  /\ back.kind = "time"
  /\ back.res = Ok(hostd.d)

----------------------------------------------------------------------------
(* Properties of the description pipeline, checked under SpecPipeline *)

SchemeTable == {"sqlite", "postgresql", "postgres", "mysql", "mariadb"}

FeatureFor(scheme) ==
  IF scheme = "sqlite" THEN "sqlite"
  ELSE IF scheme \in {"postgresql", "postgres"} THEN "postgres"
  ELSE "mysql"

\* the URL of the last from_db call, as parsed
CalledUrl == parse_url(call.db_url).val

\* C8: for a database URL, from_db fails with the unknown-scheme error naming
\* the scheme and the full URL when the scheme is outside the table, and
\* with the distinct feature-not-enabled error when the scheme is in the
\* table but its backend is not compiled in; either way an error value is
\* returned and no connection is opened.
C8_SchemeDispatch ==
  (call.op = "from_db" /\ IsOk(parse_url(call.db_url))) =>
    LET url == CalledUrl IN
    /\ url.scheme \notin SchemeTable =>
         /\ IsErr(call.res)
         /\ call.res.err.msg = "unexpected scheme in database URL"
         /\ call.res.err.scheme = url.scheme
         /\ call.res.err.url = url
         /\ ~call.connected
    /\ (url.scheme \in SchemeTable /\ FeatureFor(url.scheme) \notin features) =>
         /\ IsErr(call.res)
         /\ call.res.err.msg # "unexpected scheme in database URL"
         /\ call.res.err.feature = FeatureFor(url.scheme)
         /\ call.res.err.url = url
         /\ ~call.connected

C8_Witness ==
  /\ call.op = "from_db"
  /\ call.db_url.scheme = "ftp"
  /\ call.res = Err(ErrUnexpectedScheme("ftp", CalledUrl))
  /\ ~call.connected

C8_WitnessNotCompiled ==
  /\ call.op = "from_db"
  /\ call.db_url.scheme = "mariadb"
  /\ features = {"sqlite", "postgres"}
  /\ call.res = Err(ErrNotEnabled("mysql", CalledUrl))
  /\ ~call.connected

====
